---- MODULE Spec2Model ----
(***************************************************************************)
(* A model of EventEmitter (src/src/mod.ts): the two mappings from event   *)
(* name to listener array, the max-listeners threshold, and every public   *)
(* method.  A JavaScript object is modelled by its own property keys in     *)
(* insertion order (keys), the set of keys whose value is an array (defd:   *)
(* a key outside defd is absent or holds undefined) and the arrays (arr).   *)
(* Each method is a pure operator on the registry record; each action       *)
(* applies one method to the current registry and records the call (last)   *)
(* and the registry the call started from (pre); the caller then proceeds   *)
(* to its next call.                                                        *)
(***************************************************************************)
EXTENDS Integers, Sequences, FiniteSets, TLC

\* ---------------------------------------------------------------- bounds
\* Adds are offered while the registry holds fewer than MaxTotal entries.
MaxTotal == 3
\* Depth of nested emit calls at which the engine's call stack is exhausted.
MaxDepth == 3
\* One-shot registrations of the counted listener offered while counting.
MaxRegistered == 2

\* static defaultMaxListeners = 10
defaultMaxListeners == 10

\* ---------------------------------------------------------------- inputs
Events == {"a", "b"}
\* Listeners that return without touching the registry.
PlainListeners == {"F", "G"}
\* A listener that calls emit(event, ...args) on the same registry again.
ReemitListeners == {"R"}
\* A listener that calls off(event, itself) on the same registry.
OffSelfListeners == {"S"}
\* A listener that throws.
ThrowListeners == {"T"}
ArgValues == {"x", "y"}
\* Values passed to setMaxListeners.
Thresholds == {1}
\* The calls offered when listeners re-enter the registry.
ReentrantEvents == {"a"}
ReentrantListeners == {"F", "R"}
\* The calls offered when listeners remove themselves or throw.
CallbackEvents == {"a"}
CallbackListeners == {"F", "S", "T"}
\* The event and the listener whose registrations and invocations are counted.
TallyEvent == "a"
TallyListener == "F"
\* Argument lists of removeAllListeners: distinct events in any order.
EventLists == {<<>>} \cup {<<e>> : e \in Events}
                \cup {<<e1, e2>> : <<e1, e2>> \in {p \in Events \X Events : p[1] # p[2]}}

\* ---------------------------------------------------------------- arrays
\* Array.prototype.indexOf, 1-based; 0 stands for JavaScript's -1.
indexOf(s, f) ==
  IF \E i \in 1..Len(s) : s[i] = f
    THEN CHOOSE i \in 1..Len(s) : s[i] = f /\ \A j \in 1..(i - 1) : s[j] # f
    ELSE 0

\* Array.prototype.splice(index, 1)
splice(s, i) == SubSeq(s, 1, i - 1) \o SubSeq(s, i + 1, Len(s))

\* Array.prototype.push
push(s, f) == Append(s, f)

\* Array.prototype.unshift
unshift(s, f) == <<f>> \o s

Range(s) == {s[i] : i \in 1..Len(s)}

\* --------------------------------------------------------------- objects
\* {} : an object without own properties.
EmptyObject == [keys |-> <<>>, defd |-> {}, arr |-> [e \in Events |-> <<>>]]

\* !obj[event] is false exactly when the value is an array (arrays are truthy).
Truthy(m, e) == e \in m.defd

\* if (!obj[event]) obj[event] = []
EnsureArray(m, e) ==
  IF Truthy(m, e) THEN m
  ELSE [keys |-> IF e \in Range(m.keys) THEN m.keys ELSE Append(m.keys, e),
        defd |-> m.defd \cup {e},
        arr  |-> [m.arr EXCEPT ![e] = <<>>]]

\* obj[event] = undefined : the key stays (or becomes) an own property.
SetUndefined(m, e) ==
  [keys |-> IF e \in Range(m.keys) THEN m.keys ELSE Append(m.keys, e),
   defd |-> m.defd \ {e},
   arr  |-> [m.arr EXCEPT ![e] = <<>>]]

\* obj[event]?.length ?? 0
LengthOrZero(m, e) == IF Truthy(m, e) THEN Len(m.arr[e]) ELSE 0

\* obj[event] ?? []
ArrayOrEmpty(m, e) == IF Truthy(m, e) THEN m.arr[e] ELSE <<>>

\* -------------------------------------------------------------- registry
\* new EventEmitter()
NewEmitter == [onListeners |-> EmptyObject, onceListeners |-> EmptyObject,
               maxListeners |-> defaultMaxListeners]

\* The result of a method call: the registry afterwards, what the call gave
\* back ("this", "true", "false", or "throw" for a propagated error) and the
\* listener invocations it made, in order.
Result(r, ret, calls) == [reg |-> r, ret |-> ret, calls |-> calls]

\* on(event, listener) failing as soon as the threshold is reached.
onAtThreshold(r, e, f) ==
  LET m == [EnsureArray(r.onListeners, e) EXCEPT !.arr[e] = push(@, f)]
  IN  Result([r EXCEPT !.onListeners = m],
             IF Len(m.arr[e]) >= r.maxListeners THEN "throw" ELSE "this", <<>>)

\* on(event, listener)
on(r, e, f) ==
  LET m == [EnsureArray(r.onListeners, e) EXCEPT !.arr[e] = push(@, f)]
  IN  Result([r EXCEPT !.onListeners = m],
             IF Len(m.arr[e]) > r.maxListeners THEN "throw" ELSE "this", <<>>)

\* once(event, listener)
once(r, e, f) ==
  LET m == [EnsureArray(r.onceListeners, e) EXCEPT !.arr[e] = push(@, f)]
  IN  Result([r EXCEPT !.onceListeners = m],
             IF Len(m.arr[e]) > r.maxListeners THEN "throw" ELSE "this", <<>>)

\* prependListener(event, listener) inserting at the tail.
prependListenerAtTail(r, e, f) ==
  LET m == [EnsureArray(r.onListeners, e) EXCEPT !.arr[e] = push(@, f)]
  IN  Result([r EXCEPT !.onListeners = m],
             IF Len(m.arr[e]) > r.maxListeners THEN "throw" ELSE "this", <<>>)

\* prependListener(event, listener)
prependListener(r, e, f) ==
  LET m == [EnsureArray(r.onListeners, e) EXCEPT !.arr[e] = unshift(@, f)]
  IN  Result([r EXCEPT !.onListeners = m],
             IF Len(m.arr[e]) > r.maxListeners THEN "throw" ELSE "this", <<>>)

\* prependOnceListener(event, listener)
prependOnceListener(r, e, f) ==
  LET m == [EnsureArray(r.onceListeners, e) EXCEPT !.arr[e] = unshift(@, f)]
  IN  Result([r EXCEPT !.onceListeners = m],
             IF Len(m.arr[e]) > r.maxListeners THEN "throw" ELSE "this", <<>>)

\* off(event, listener): the registry afterwards.  A miss in the one-shot
\* array returns at once; a hit there goes on to the persistent array.
offReg(r, e, f) ==
  LET i1 == indexOf(r.onceListeners.arr[e], f)
      r1 == IF Truthy(r.onceListeners, e)
              THEN [r EXCEPT !.onceListeners.arr[e] = splice(@, i1)]
              ELSE r
      i2 == indexOf(r1.onListeners.arr[e], f)
  IN  IF Truthy(r.onceListeners, e) /\ i1 = 0 THEN r
      ELSE IF ~Truthy(r1.onListeners, e) THEN r1
      ELSE IF i2 = 0 THEN r1
      ELSE [r1 EXCEPT !.onListeners.arr[e] = splice(@, i2)]

\* off(event, listener) removing the listener from the lists of every event.
RECURSIVE offEach(_, _, _)
offEach(r, es, f) ==
  IF es = {} THEN r
  ELSE LET e == CHOOSE x \in es : TRUE
       IN  offEach(offReg(r, e, f), es \ {e}, f)

offEveryEvent(r, e, f) == Result(offEach(r, Events, f), "this", <<>>)

off(r, e, f) == Result(offReg(r, e, f), "this", <<>>)

\* removeAllListeners(...events): a rest parameter is always an array, and an
\* array is truthy, so the !events branch is never taken.
RECURSIVE clearEach(_, _)
clearEach(r, events) ==
  IF events = <<>> THEN r
  ELSE clearEach([r EXCEPT !.onListeners = SetUndefined(@, Head(events)),
                           !.onceListeners = SetUndefined(@, Head(events))],
                 Tail(events))

\* removeAllListeners forgetting the one-shot mapping.
RECURSIVE clearEachOn(_, _)
clearEachOn(r, events) ==
  IF events = <<>> THEN r
  ELSE clearEachOn([r EXCEPT !.onListeners = SetUndefined(@, Head(events))],
                   Tail(events))

removeAllListenersOnOnly(r, events) == Result(clearEachOn(r, events), "this", <<>>)

removeAllListeners(r, events) == Result(clearEach(r, events), "this", <<>>)

\* setMaxListeners(n) applied to the lists already registered: every array is
\* cut to its first n entries.
setMaxListenersRetroactive(r, n) ==
  LET cut(m) == [m EXCEPT !.arr = [e \in Events |->
                    SubSeq(m.arr[e], 1, IF Len(m.arr[e]) < n THEN Len(m.arr[e]) ELSE n)]]
  IN  Result([onListeners |-> cut(r.onListeners), onceListeners |-> cut(r.onceListeners),
              maxListeners |-> n], "this", <<>>)

\* setMaxListeners(n)
setMaxListeners(r, n) == Result([r EXCEPT !.maxListeners = n], "this", <<>>)

\* getMaxListeners()
getMaxListeners(r) == r.maxListeners

\* listenerCount(event) counting the persistent listeners only.
listenerCountPersistentOnly(r, e) == LengthOrZero(r.onListeners, e)

\* listenerCount(event)
listenerCount(r, e) == LengthOrZero(r.onListeners, e) + LengthOrZero(r.onceListeners, e)

\* listeners(event)
listeners(r, e) == ArrayOrEmpty(r.onListeners, e) \o ArrayOrEmpty(r.onceListeners, e)

\* ------------------------------------------------------------------ emit
\* One listener invocation, as emit's forEach callbacks make it.
Call(f, args, via) == [listener |-> f, args |-> args, via |-> via]

\* emit(event, ...args).  st is the running call: the registry, the listener
\* invocations so far and whether an error is propagating.  forEach reads the
\* array's length once and then visits index k only while the array, as it is
\* at that moment, still has an element there.  No modelled listener replaces
\* the array object of an event, so the array being iterated is always the
\* one the mapping holds.
RECURSIVE emitAt(_, _, _, _), invoke(_, _, _, _, _, _),
          forEachOn(_, _, _, _, _, _), forEachOnce(_, _, _, _, _, _)

\* listener(...args) inside a try/catch: the error of a throwing listener is
\* swallowed.
invokeCaught(st, f, e, args, via, depth) ==
  LET st1 == [st EXCEPT !.calls = Append(@, Call(f, args, via))]
  IN  IF f \in ReemitListeners
        THEN IF depth >= MaxDepth
               THEN [st1 EXCEPT !.threw = TRUE]
               ELSE LET res == emitAt(st1.reg, e, args, depth + 1)
                    IN  [reg |-> res.reg, calls |-> st1.calls \o res.calls,
                         threw |-> res.ret = "throw"]
      ELSE IF f \in OffSelfListeners
        THEN [st1 EXCEPT !.reg = offReg(@, e, f)]
      ELSE st1

\* listener(...args): a plain listener returns; a re-emitting listener calls
\* emit(event, ...args), which overflows the call stack at depth MaxDepth; a
\* self-removing listener calls off(event, itself) and returns; a throwing
\* listener throws.
invoke(st, f, e, args, via, depth) ==
  LET st1 == [st EXCEPT !.calls = Append(@, Call(f, args, via))]
  IN  IF f \in ReemitListeners
        THEN IF depth >= MaxDepth
               THEN [st1 EXCEPT !.threw = TRUE]
               ELSE LET res == emitAt(st1.reg, e, args, depth + 1)
                    IN  [reg |-> res.reg, calls |-> st1.calls \o res.calls,
                         threw |-> res.ret = "throw"]
      ELSE IF f \in OffSelfListeners
        THEN [st1 EXCEPT !.reg = offReg(@, e, f)]
      ELSE IF f \in ThrowListeners
        THEN [st1 EXCEPT !.threw = TRUE]
      ELSE st1

\* this.onListeners[event]?.forEach(listener => listener(...args))
forEachOn(st, e, args, k, len, depth) ==
  IF st.threw \/ k > len THEN st
  ELSE LET a == st.reg.onListeners.arr[e]
       IN  IF k <= Len(a)
             THEN forEachOn(invoke(st, a[k], e, args, "on", depth),
                            e, args, k + 1, len, depth)
             ELSE forEachOn(st, e, args, k + 1, len, depth)

\* The one-shot forEach without the off call: nothing is ever removed.
RECURSIVE forEachOnceKeeping(_, _, _, _, _, _)
forEachOnceKeeping(st, e, args, k, len, depth) ==
  IF st.threw \/ k > len THEN st
  ELSE LET a == st.reg.onceListeners.arr[e]
       IN  IF k <= Len(a)
             THEN forEachOnceKeeping(invoke(st, a[k], e, args, "once", depth),
                                     e, args, k + 1, len, depth)
             ELSE forEachOnceKeeping(st, e, args, k + 1, len, depth)

\* this.onceListeners[event]?.forEach(listener => { listener(...args);
\*                                                   this.off(event, listener) })
forEachOnce(st, e, args, k, len, depth) ==
  IF st.threw \/ k > len THEN st
  ELSE LET a == st.reg.onceListeners.arr[e]
       IN  IF k <= Len(a)
             THEN LET st1 == invoke(st, a[k], e, args, "once", depth)
                      st2 == IF st1.threw THEN st1
                             ELSE [st1 EXCEPT !.reg = offReg(@, e, a[k])]
                  IN  forEachOnce(st2, e, args, k + 1, len, depth)
             ELSE forEachOnce(st, e, args, k + 1, len, depth)

\* The second half of emit: the one-shot listeners, after the persistent ones.
emitOnce(s1, e, args, depth) ==
  IF s1.threw THEN Result(s1.reg, "throw", s1.calls)
  ELSE IF ~Truthy(s1.reg.onceListeners, e) \/ Len(s1.reg.onceListeners.arr[e]) = 0
    THEN Result(s1.reg, "true", s1.calls)
    ELSE LET s2 == forEachOnce(s1, e, args, 1, Len(s1.reg.onceListeners.arr[e]), depth)
         IN  Result(s2.reg, IF s2.threw THEN "throw" ELSE "true", s2.calls)

emitAt(r, e, args, depth) ==
  IF ~Truthy(r.onListeners, e) \/ Len(r.onListeners.arr[e]) = 0
    THEN Result(r, "false", <<>>)
    ELSE emitOnce(forEachOn([reg |-> r, calls |-> <<>>, threw |-> FALSE],
                            e, args, 1, Len(r.onListeners.arr[e]), depth),
                  e, args, depth)

\* emit without the early return on an empty persistent array.
emitNoShortCircuit(r, e, args) ==
  emitOnce(forEachOn([reg |-> r, calls |-> <<>>, threw |-> FALSE],
                     e, args, 1, Len(r.onListeners.arr[e]), 0),
           e, args, 0)

emit(r, e, args) == emitAt(r, e, args, 0)

\* eventNames(): Object.keys of each mapping filtered to the defined values,
\* concatenated, then filtered to first occurrences.
FilterDefined(m) == SelectSeq(m.keys, LAMBDA k : k \in m.defd)

\* No de-duplication at all.
KeepAll(s) == s

FirstOccurrences(s) ==
  LET F[i \in 0..Len(s)] ==
        IF i = 0 THEN <<>>
        ELSE IF indexOf(s, s[i]) = i THEN Append(F[i - 1], s[i]) ELSE F[i - 1]
  IN  F[Len(s)]

eventNames(r) ==
  FirstOccurrences(FilterDefined(r.onListeners) \o FilterDefined(r.onceListeners))

\* ----------------------------------------------------------------- state
VARIABLES onListeners, onceListeners, maxListeners, pre, last, tally

vars == <<onListeners, onceListeners, maxListeners, pre, last, tally>>

\* The registry as the methods see it.
Reg == [onListeners |-> onListeners, onceListeners |-> onceListeners,
        maxListeners |-> maxListeners]

RECURSIVE SumCounts(_, _)
SumCounts(r, es) ==
  IF es = {} THEN 0
  ELSE LET e == CHOOSE x \in es : TRUE
       IN  listenerCount(r, e) + SumCounts(r, es \ {e})

Total(r) == SumCounts(r, Events)

\* The record of a call: the method, its arguments and its outcome.  A query
\* gives back a sequence (value) or a number (count).
Record(op, e, f, args, events, n, res) ==
  [op |-> op, event |-> e, listener |-> f, args |-> args, events |-> events,
   n |-> n, ret |-> res.ret, calls |-> res.calls, value |-> <<>>, count |-> 0]

\* Between two calls the caller holds no result.
Idle == [op |-> "idle", event |-> "", listener |-> "", args |-> "", events |-> <<>>,
         n |-> 0, ret |-> "", calls |-> <<>>, value |-> <<>>, count |-> 0]

\* The record of a query and what it returned.
Query(op, e, value, count) ==
  [Idle EXCEPT !.op = op, !.event = e, !.ret = "value", !.value = value,
               !.count = count]

\* The count kept of TallyListener on TallyEvent over the whole run: how often
\* once or prependOnceListener registered it, how often emit invoked it, and
\* whether on or prependListener ever placed it in the persistent list; from
\* then on nothing more is counted.  NoTally: nothing is counted at all.
NoTally == [tracking |-> FALSE, registered |-> 0, invoked |-> 0, persistent |-> FALSE]

StartTally == [tracking |-> TRUE, registered |-> 0, invoked |-> 0, persistent |-> FALSE]

Tallied(t, rec) ==
  IF ~t.tracking \/ t.persistent \/ rec.event # TallyEvent THEN t
  ELSE IF rec.op \in {"on", "prependListener"} /\ rec.listener = TallyListener
    THEN [StartTally EXCEPT !.persistent = TRUE]
  ELSE IF rec.op \in {"once", "prependOnceListener"} /\ rec.listener = TallyListener
    THEN [t EXCEPT !.registered = @ + 1]
  ELSE IF rec.op = "emit"
    THEN [t EXCEPT !.invoked = @ + Cardinality({i \in 1..Len(rec.calls) :
                                                 rec.calls[i].listener = TallyListener})]
  ELSE t

Commit(res, rec) ==
  /\ onListeners' = res.reg.onListeners
  /\ onceListeners' = res.reg.onceListeners
  /\ maxListeners' = res.reg.maxListeners
  /\ pre' = Reg
  /\ last' = rec
  /\ tally' = Tallied(tally, rec)

Init ==
  /\ onListeners = NewEmitter.onListeners
  /\ onceListeners = NewEmitter.onceListeners
  /\ maxListeners = NewEmitter.maxListeners
  /\ pre = NewEmitter
  /\ last = Idle
  /\ tally = NoTally

\* A fresh registry whose calls are counted.
InitTally ==
  /\ onListeners = NewEmitter.onListeners
  /\ onceListeners = NewEmitter.onceListeners
  /\ maxListeners = NewEmitter.maxListeners
  /\ pre = NewEmitter
  /\ last = Idle
  /\ tally = StartTally

\* While counting, at most MaxRegistered one-shot registrations of the counted
\* listener are offered.
WithinTally(e, f) ==
  (tally.tracking /\ e = TallyEvent /\ f = TallyListener)
  => tally.registered < MaxRegistered

CallOn(e, f) ==
  /\ last = Idle
  /\ Total(Reg) < MaxTotal
  /\ LET res == on(Reg, e, f)
     IN  Commit(res, Record("on", e, f, "", <<>>, 0, res))

CallOnce(e, f) ==
  /\ last = Idle
  /\ Total(Reg) < MaxTotal
  /\ WithinTally(e, f)
  /\ LET res == once(Reg, e, f)
     IN  Commit(res, Record("once", e, f, "", <<>>, 0, res))

CallPrependListener(e, f) ==
  /\ last = Idle
  /\ Total(Reg) < MaxTotal
  /\ LET res == prependListener(Reg, e, f)
     IN  Commit(res, Record("prependListener", e, f, "", <<>>, 0, res))

CallPrependOnceListener(e, f) ==
  /\ last = Idle
  /\ Total(Reg) < MaxTotal
  /\ WithinTally(e, f)
  /\ LET res == prependOnceListener(Reg, e, f)
     IN  Commit(res, Record("prependOnceListener", e, f, "", <<>>, 0, res))

CallOff(e, f) ==
  /\ last = Idle
  /\ LET res == off(Reg, e, f)
     IN  Commit(res, Record("off", e, f, "", <<>>, 0, res))

CallEmit(e, args) ==
  /\ last = Idle
  /\ LET res == emit(Reg, e, args)
     IN  Commit(res, Record("emit", e, "", args, <<>>, 0, res))

CallRemoveAllListeners(events) ==
  /\ last = Idle
  /\ LET res == removeAllListeners(Reg, events)
     IN  Commit(res, Record("removeAllListeners", "", "", "", events, 0, res))

CallSetMaxListeners(n) ==
  /\ last = Idle
  /\ LET res == setMaxListeners(Reg, n)
     IN  Commit(res, Record("setMaxListeners", "", "", "", <<>>, n, res))

\* The queries assign nothing: they read the registry and return.
Answer(rec) ==
  /\ last' = rec
  /\ pre' = Reg
  /\ UNCHANGED <<onListeners, onceListeners, maxListeners, tally>>

CallListenerCount(e) ==
  /\ last = Idle
  /\ Answer(Query("listenerCount", e, <<>>, listenerCount(Reg, e)))

CallListeners(e) ==
  /\ last = Idle
  /\ Answer(Query("listeners", e, listeners(Reg, e), 0))

CallEventNames ==
  /\ last = Idle
  /\ Answer(Query("eventNames", "", eventNames(Reg), 0))

CallGetMaxListeners ==
  /\ last = Idle
  /\ Answer(Query("getMaxListeners", "", <<>>, getMaxListeners(Reg)))

\* The caller is done with the result of its call and goes on to the next.
Proceed ==
  /\ last # Idle
  /\ last' = Idle
  /\ pre' = Reg
  /\ UNCHANGED <<onListeners, onceListeners, maxListeners, tally>>

\* Calls with listeners that never call back into the registry.
Next ==
  \/ \E e \in Events, f \in PlainListeners : CallOn(e, f)
  \/ \E e \in Events, f \in PlainListeners : CallOnce(e, f)
  \/ \E e \in Events, f \in PlainListeners : CallPrependListener(e, f)
  \/ \E e \in Events, f \in PlainListeners : CallPrependOnceListener(e, f)
  \/ \E e \in Events, f \in PlainListeners : CallOff(e, f)
  \/ \E e \in Events, args \in ArgValues : CallEmit(e, args)
  \/ \E events \in EventLists : CallRemoveAllListeners(events)
  \/ \E n \in Thresholds : CallSetMaxListeners(n)
  \/ \E e \in Events : CallListenerCount(e)
  \/ \E e \in Events : CallListeners(e)
  \/ CallEventNames
  \/ CallGetMaxListeners
  \/ Proceed

Spec == Init /\ [][Next]_vars

\* Calls on one event with a listener that re-emits the event it is invoked for.
NextReentrant ==
  \/ \E e \in ReentrantEvents, f \in ReentrantListeners : CallOn(e, f)
  \/ \E e \in ReentrantEvents, f \in ReentrantListeners : CallOnce(e, f)
  \/ \E e \in ReentrantEvents, f \in ReentrantListeners : CallPrependListener(e, f)
  \/ \E e \in ReentrantEvents, f \in ReentrantListeners : CallPrependOnceListener(e, f)
  \/ \E e \in ReentrantEvents, f \in ReentrantListeners : CallOff(e, f)
  \/ \E e \in ReentrantEvents, args \in ArgValues : CallEmit(e, args)
  \/ \E events \in {<<>>} \cup {<<e>> : e \in ReentrantEvents} :
        CallRemoveAllListeners(events)
  \/ \E n \in Thresholds : CallSetMaxListeners(n)
  \/ \E e \in ReentrantEvents : CallListenerCount(e)
  \/ \E e \in ReentrantEvents : CallListeners(e)
  \/ CallEventNames
  \/ CallGetMaxListeners
  \/ Proceed

SpecReentrant == Init /\ [][NextReentrant]_vars

\* Calls on one event with listeners that remove themselves or throw.
NextCallbacks ==
  \/ \E e \in CallbackEvents, f \in CallbackListeners : CallOn(e, f)
  \/ \E e \in CallbackEvents, f \in CallbackListeners : CallOnce(e, f)
  \/ \E e \in CallbackEvents, f \in CallbackListeners : CallPrependListener(e, f)
  \/ \E e \in CallbackEvents, f \in CallbackListeners : CallPrependOnceListener(e, f)
  \/ \E e \in CallbackEvents, f \in CallbackListeners : CallOff(e, f)
  \/ \E e \in CallbackEvents, args \in ArgValues : CallEmit(e, args)
  \/ \E events \in {<<>>} \cup {<<e>> : e \in CallbackEvents} :
        CallRemoveAllListeners(events)
  \/ \E n \in Thresholds : CallSetMaxListeners(n)
  \/ \E e \in CallbackEvents : CallListenerCount(e)
  \/ \E e \in CallbackEvents : CallListeners(e)
  \/ CallEventNames
  \/ CallGetMaxListeners
  \/ Proceed

SpecCallbacks == Init /\ [][NextCallbacks]_vars

\* Calls on one event with plain listeners, counted over the whole run.
NextTally ==
  \/ \E e \in {TallyEvent}, f \in PlainListeners : CallOn(e, f)
  \/ \E e \in {TallyEvent}, f \in PlainListeners : CallOnce(e, f)
  \/ \E e \in {TallyEvent}, f \in PlainListeners : CallPrependListener(e, f)
  \/ \E e \in {TallyEvent}, f \in PlainListeners : CallPrependOnceListener(e, f)
  \/ \E e \in {TallyEvent}, f \in PlainListeners : CallOff(e, f)
  \/ \E e \in {TallyEvent}, args \in ArgValues : CallEmit(e, args)
  \/ \E events \in {<<>>, <<TallyEvent>>} : CallRemoveAllListeners(events)
  \/ \E n \in Thresholds : CallSetMaxListeners(n)
  \/ \E e \in {TallyEvent} : CallListenerCount(e)
  \/ \E e \in {TallyEvent} : CallListeners(e)
  \/ CallEventNames
  \/ CallGetMaxListeners
  \/ Proceed

SpecTally == InitTally /\ [][NextTally]_vars

\* ---------------------------------------------------------------- claims
\* The arrays of event e in registry r (empty when absent or undefined).
OnList(r, e) == ArrayOrEmpty(r.onListeners, e)
OnceList(r, e) == ArrayOrEmpty(r.onceListeners, e)

\* emit's short-circuit does not apply: the persistent array exists and is
\* non-empty.
PersistentNonEmpty(r, e) == Truthy(r.onListeners, e) /\ Len(r.onListeners.arr[e]) > 0

\* No listener registered for e mutates the registry or throws.
Quiet(r, e) == Range(OnList(r, e)) \cup Range(OnceList(r, e)) \subseteq PlainListeners

\* The invocations of every entry of list, in order, with args.
Invocations(list, args, via) == [i \in 1..Len(list) |-> Call(list[i], args, via)]

\* How often listener f was invoked through the one-shot array.
OnceCallsOf(calls, f) ==
  Cardinality({i \in 1..Len(calls) : calls[i].listener = f /\ calls[i].via = "once"})

Occurrences(list, f) == Cardinality({i \in 1..Len(list) : list[i] = f})

\* The lists of event e are the same in r1 and r2.
SameLists(r1, r2, e) ==
  /\ Truthy(r1.onListeners, e) = Truthy(r2.onListeners, e)
  /\ Truthy(r1.onceListeners, e) = Truthy(r2.onceListeners, e)
  /\ OnList(r1, e) = OnList(r2, e)
  /\ OnceList(r1, e) = OnceList(r2, e)

\* C1: when the persistent list of e is non-empty and no listener mutates the
\* registry or throws, emit(e, args) invokes every entry of the persistent
\* list exactly once, in list order, with args, before any one-shot listener,
\* and leaves the persistent list unchanged.
C1_EmitInvokesPersistentAndKeepsThem ==
  (last.op = "emit" /\ PersistentNonEmpty(pre, last.event) /\ Quiet(pre, last.event))
  => LET e == last.event
         n == Len(OnList(pre, e))
     IN  /\ Len(last.calls) >= n
         /\ SubSeq(last.calls, 1, n) = Invocations(OnList(pre, e), last.args, "on")
         /\ \A i \in (n + 1)..Len(last.calls) : last.calls[i].via = "once"
         /\ Truthy(onListeners, e)
         /\ onListeners.arr[e] = OnList(pre, e)

\* C2: if f occurs in the persistent list of e and not in the one-shot list
\* of e, off(e, f) removes the first occurrence of f from the persistent
\* list, whether or not a one-shot list exists for e.
C2_OffRemovesFromPersistent ==
  (last.op = "off"
     /\ last.listener \in Range(OnList(pre, last.event))
     /\ last.listener \notin Range(OnceList(pre, last.event)))
  => onListeners.arr[last.event]
       = splice(OnList(pre, last.event), indexOf(OnList(pre, last.event), last.listener))

\* C3: when the persistent list of e is non-empty, the one-shot list holds
\* k >= 1 entries and no listener mutates the registry or throws, one emit
\* invokes each of the k one-shot entries exactly once, in list order, with
\* args, and the one-shot list is empty when emit returns.
C3_EmitFiresEveryOneShot ==
  (last.op = "emit" /\ PersistentNonEmpty(pre, last.event) /\ Quiet(pre, last.event)
     /\ Len(OnceList(pre, last.event)) >= 1)
  => /\ SelectSeq(last.calls, LAMBDA c : c.via = "once")
          = Invocations(OnceList(pre, last.event), last.args, "once")
     /\ OnceList(Reg, last.event) = <<>>

\* C4: if the persistent list of e is absent or empty, emit(e, args) returns
\* false, invokes no listener and leaves both mappings unchanged.
C4_EmitShortCircuit ==
  (last.op = "emit" /\ ~PersistentNonEmpty(pre, last.event))
  => /\ last.ret = "false"
     /\ last.calls = <<>>
     /\ Reg = pre

\* A call of emit on an event whose persistent array is empty while its
\* one-shot array holds a listener.
C4_Witness ==
  /\ last.op = "emit"
  /\ Truthy(pre.onListeners, last.event)
  /\ OnList(pre, last.event) = <<>>
  /\ OnceList(pre, last.event) # <<>>
  /\ last.ret = "false"

\* C5: on a fresh registry after on(e, g) and once(e, f), for all listeners g
\* and f (equal or not), the first emit(e) invokes g once and f once and f is
\* then no longer in the one-shot list, and a second emit(e) invokes g again
\* and does not invoke f through the one-shot list.
C5_PersistentSurvivesOneShot ==
  \A g \in PlainListeners, f \in PlainListeners :
    (last.op = "emit" /\ pre = once(on(NewEmitter, last.event, g).reg, last.event, f).reg)
    => /\ last.calls = <<Call(g, last.args, "on"), Call(f, last.args, "once")>>
       /\ f \notin Range(OnceList(Reg, last.event))
       /\ \A args \in ArgValues :
            emit(Reg, last.event, args).calls = <<Call(g, args, "on")>>

\* C6: off(e, f) removes at most one entry in total: if f occurs in the
\* one-shot list of e, its first occurrence there is removed and the
\* persistent list of e is left unchanged; listenerCount(e) never drops by
\* more than 1 in one off call.
C6_OffRemovesAtMostOne ==
  last.op = "off"
  => LET e == last.event
         f == last.listener
     IN  /\ f \in Range(OnceList(pre, e))
              => /\ OnceList(Reg, e) = splice(OnceList(pre, e), indexOf(OnceList(pre, e), f))
                 /\ OnList(Reg, e) = OnList(pre, e)
         /\ listenerCount(pre, e) - listenerCount(Reg, e) <= 1

\* C7: an add operation fails with the listener-limit error if and only if
\* the list it inserted into, counted on its own, is longer than the
\* threshold after the insertion; the listener is registered either way (at
\* the tail for on/once, at the head for the prepend operations), the other
\* list of the event is untouched, and without the error the registry is
\* returned.
AddOps == {"on", "once", "prependListener", "prependOnceListener"}

C7_LimitErrorIffListTooLong ==
  last.op \in AddOps
  => LET e == last.event
         persistent == last.op \in {"on", "prependListener"}
         before == IF persistent THEN OnList(pre, e) ELSE OnceList(pre, e)
         after == IF persistent THEN OnList(Reg, e) ELSE OnceList(Reg, e)
         inserted == IF last.op \in {"on", "once"}
                       THEN Append(before, last.listener)
                       ELSE <<last.listener>> \o before
     IN  /\ after = inserted
         /\ IF persistent THEN OnceList(Reg, e) = OnceList(pre, e)
                          ELSE OnList(Reg, e) = OnList(pre, e)
         /\ last.ret = "throw" <=> Len(after) > pre.maxListeners
         /\ last.ret # "throw" => last.ret = "this"

\* once() has just failed on a one-shot list one longer than the threshold,
\* while the event's two lists together were already longer than it.
C7_Witness ==
  /\ last.op = "once"
  /\ last.ret = "throw"
  /\ Len(OnceList(Reg, last.event)) = pre.maxListeners + 1
  /\ last.listener \in Range(OnceList(Reg, last.event))
  /\ OnList(Reg, last.event) # <<>>

\* C8: removeAllListeners() with zero arguments clears both mappings: then for
\* every event e, listenerCount(e) = 0, listeners(e) is empty, eventNames()
\* is empty and emit(e) returns false.
C8_RemoveAllClearsEverything ==
  (last.op = "removeAllListeners" /\ last.events = <<>>)
  => /\ eventNames(Reg) = <<>>
     /\ \A e \in Events :
          /\ listenerCount(Reg, e) = 0
          /\ listeners(Reg, e) = <<>>
          /\ \A args \in ArgValues : emit(Reg, e, args).ret = "false"

\* C9: removeAllListeners(e1, ..., en), n >= 1, leaves every named event with
\* listenerCount 0, no listeners, absent from eventNames() and emit returning
\* false without invoking anything; the lists of every other event are
\* unchanged; and a later on or once on a named event yields the same list,
\* count and outcome as on a registry that never registered the event.
C9_RemoveAllOfNamedEvents ==
  (last.op = "removeAllListeners" /\ Len(last.events) >= 1)
  => LET never == [NewEmitter EXCEPT !.maxListeners = maxListeners]
     IN  /\ \A e \in Range(last.events) :
              /\ listenerCount(Reg, e) = 0
              /\ listeners(Reg, e) = <<>>
              /\ e \notin Range(eventNames(Reg))
              /\ \A args \in ArgValues :
                   emit(Reg, e, args) = Result(Reg, "false", <<>>)
              /\ \A f \in PlainListeners :
                   /\ listeners(on(Reg, e, f).reg, e) = listeners(on(never, e, f).reg, e)
                   /\ on(Reg, e, f).ret = on(never, e, f).ret
                   /\ listeners(once(Reg, e, f).reg, e) = listeners(once(never, e, f).reg, e)
                   /\ once(Reg, e, f).ret = once(never, e, f).ret
                   /\ e \in Range(eventNames(on(Reg, e, f).reg))
                   /\ e \in Range(eventNames(once(Reg, e, f).reg))
         /\ \A e \in Events \ Range(last.events) : SameLists(Reg, pre, e)
         /\ maxListeners = pre.maxListeners

\* removeAllListeners("a") has just run on a registry where "a" had a
\* persistent and a one-shot listener and "b" had a listener too.
C9_Witness ==
  /\ last.op = "removeAllListeners"
  /\ last.events = <<"a">>
  /\ OnList(pre, "a") # <<>>
  /\ OnceList(pre, "a") # <<>>
  /\ listenerCount(pre, "b") = 1
  /\ listenerCount(Reg, "a") = 0
  /\ listenerCount(Reg, "b") = 1

\* C10: a one-shot listener that calls emit(e) while emit(e) invokes it is not
\* invoked again by the nested emission, and the outer emit returns.
C10_ReentrantOneShotFiresOnce ==
  (last.op = "emit" /\ PersistentNonEmpty(pre, last.event)
     /\ Range(OnList(pre, last.event)) \subseteq PlainListeners)
  => \A f \in ReemitListeners :
       f \in Range(OnceList(pre, last.event))
       => /\ OnceCallsOf(last.calls, f) <= Occurrences(OnceList(pre, last.event), f)
          /\ last.ret = "true"

\* How often listener f was invoked through the persistent array.
OnCallsOf(calls, f) ==
  Cardinality({i \in 1..Len(calls) : calls[i].listener = f /\ calls[i].via = "on"})

\* C11: when a persistent listener calls back into the registry for e during
\* emit(e) (here: removes itself with off), every entry that was in the
\* persistent list when emit began and is not removed during the emission is
\* invoked exactly once by that emit.  The one-shot list is empty, so emit
\* itself removes nothing, and no listener throws.
C11_MutationSkipsNoPersistentEntry ==
  (last.op = "emit" /\ PersistentNonEmpty(pre, last.event)
     /\ OnceList(pre, last.event) = <<>>
     /\ Range(OnList(pre, last.event)) \subseteq PlainListeners \cup OffSelfListeners)
  => \A f \in PlainListeners :
       OnCallsOf(last.calls, f) = Occurrences(OnList(pre, last.event), f)

\* C12: if a listener throws while emit(e) invokes it, the error propagates
\* out of emit and nothing is invoked after the throwing listener: the
\* invocation of the throwing listener is the last one of the call, and emit
\* throws only then.
C12_ThrowAbortsEmit ==
  last.op = "emit"
  => LET thrown == {i \in 1..Len(last.calls) : last.calls[i].listener \in ThrowListeners}
     IN  /\ thrown # {} => last.ret = "throw" /\ thrown = {Len(last.calls)}
         /\ last.ret = "throw" => thrown # {}

\* emit has just thrown out of the first of two persistent listeners, with a
\* one-shot listener registered too.
C12_Witness ==
  /\ last.op = "emit"
  /\ last.ret = "throw"
  /\ Len(OnList(pre, last.event)) = 2
  /\ OnceList(pre, last.event) # <<>>
  /\ last.calls = <<Call("T", last.args, "on")>>
  /\ Reg = pre

\* C13: on and once insert at the tail and prependListener and
\* prependOnceListener at the head of their list (so a list built by on and
\* prependListener calls is the prepended listeners, latest first, followed
\* by the appended ones in call order), and the next emit invokes the
\* persistent entries in that list order and then the head of the one-shot
\* list first among the one-shot entries.
C13_InsertionOrderIsInvocationOrder ==
  last.op \in AddOps
  => LET e == last.event
         persistent == last.op \in {"on", "prependListener"}
         before == IF persistent THEN OnList(pre, e) ELSE OnceList(pre, e)
         after == IF persistent THEN OnList(Reg, e) ELSE OnceList(Reg, e)
         n == Len(OnList(Reg, e))
     IN  /\ after = IF last.op \in {"on", "once"}
                      THEN before \o <<last.listener>>
                      ELSE <<last.listener>> \o before
         /\ \A args \in ArgValues :
              PersistentNonEmpty(Reg, e)
              => LET c == emit(Reg, e, args).calls
                 IN  /\ Len(c) >= n
                     /\ SubSeq(c, 1, n) = Invocations(OnList(Reg, e), args, "on")
                     /\ OnceList(Reg, e) # <<>>
                          => /\ Len(c) > n
                             /\ c[n + 1] = Call(OnceList(Reg, e)[1], args, "once")

\* prependListener(e, F) has just run on the persistent list [G].
C13_Witness ==
  /\ last.op = "prependListener"
  /\ last.listener = "F"
  /\ OnList(pre, last.event) = <<"G">>
  /\ OnList(Reg, last.event) = <<"F", "G">>
  /\ emit(Reg, last.event, "x").calls = <<Call("F", "x", "on"), Call("G", "x", "on")>>

\* C14: in every reachable state eventNames() holds no identifier twice, holds
\* exactly the events that have a list in either mapping, and lists the events
\* that have a persistent list before those that have only a one-shot list
\* (a key whose value is undefined counts as having no list); after
\* on('a', .), on('a', .), once('a', .) on a fresh registry it is ['a'].
C14_EventNamesDeduplicatedAndOrdered ==
  LET names == eventNames(Reg)
  IN  /\ \A i, j \in 1..Len(names) : i # j => names[i] # names[j]
      /\ Range(names) = onListeners.defd \cup onceListeners.defd
      /\ \A i, j \in 1..Len(names) :
           (i < j /\ names[j] \in onListeners.defd) => names[i] \in onListeners.defd
      /\ (last.op = "once" /\ last.event = "a"
            /\ \E f \in PlainListeners, g \in PlainListeners :
                 pre = on(on(NewEmitter, "a", f).reg, "a", g).reg)
         => names = <<"a">>

\* once('a', .) has just run after two on('a', .) calls on a fresh registry.
C14_Witness ==
  /\ last.op = "once"
  /\ last.event = "a"
  /\ \E f \in PlainListeners, g \in PlainListeners :
       pre = on(on(NewEmitter, "a", f).reg, "a", g).reg
  /\ listenerCount(Reg, "a") = 3
  /\ eventNames(Reg) = <<"a">>

\* C15: every event name returned by eventNames() has at least one listener
\* attached: listenerCount(e) > 0.
C15_EventNamesHaveListeners ==
  \A e \in Range(eventNames(Reg)) : listenerCount(Reg, e) > 0

\* C16: in every reachable state and for every event e, listeners(e) is the
\* persistent array of e followed by its one-shot array (nothing for a
\* mapping where e is absent or undefined), listenerCount(e) is the length
\* of listeners(e), and a call of either query returns that value and leaves
\* the registry as it was.
C16_ListenersAndCount ==
  /\ \A e \in Events :
       /\ listeners(Reg, e)
            = (IF e \in onListeners.defd THEN onListeners.arr[e] ELSE <<>>)
                \o (IF e \in onceListeners.defd THEN onceListeners.arr[e] ELSE <<>>)
       /\ listenerCount(Reg, e) = Len(listeners(Reg, e))
       /\ (e \notin onListeners.defd /\ e \notin onceListeners.defd)
            => listenerCount(Reg, e) = 0 /\ listeners(Reg, e) = <<>>
  /\ last.op = "listeners"
       => /\ Reg = pre
          /\ last.value = OnList(pre, last.event) \o OnceList(pre, last.event)
  /\ last.op = "listenerCount"
       => /\ Reg = pre
          /\ last.count = Len(OnList(pre, last.event)) + Len(OnceList(pre, last.event))

\* listenerCount has just returned 3 for an event with persistent and one-shot
\* listeners.
C16_Witness ==
  /\ last.op = "listenerCount"
  /\ last.count = 3
  /\ OnList(Reg, last.event) # <<>>
  /\ OnceList(Reg, last.event) # <<>>
  /\ listeners(Reg, last.event) = OnList(Reg, last.event) \o OnceList(Reg, last.event)

\* C17: whenever emit returns normally, its result is true if and only if at
\* least one listener was invoked during the call.
C17_EmitResultTellsInvocation ==
  (last.op = "emit" /\ last.ret # "throw")
  => /\ last.ret \in {"true", "false"}
     /\ last.ret = "true" <=> last.calls # <<>>

\* emit has just returned true after invoking two listeners, the first of
\* which removed itself.
C17_Witness ==
  /\ last.op = "emit"
  /\ last.ret = "true"
  /\ Len(last.calls) = 2
  /\ last.calls[1].listener \in OffSelfListeners
  /\ Reg # pre

\* C18: getMaxListeners() is 10 on a fresh registry; setMaxListeners(n) never
\* fails, makes getMaxListeners() return n and changes no listener list even
\* when a list is already longer than n; every other call leaves the
\* threshold as it was; and an add operation is checked against the
\* threshold in force when it is called.
C18_ThresholdSetAndRead ==
  /\ (pre = NewEmitter /\ last.op # "setMaxListeners") => getMaxListeners(Reg) = 10
  /\ last.op = "setMaxListeners"
       => /\ last.ret = "this"
          /\ getMaxListeners(Reg) = last.n
          /\ onListeners = pre.onListeners
          /\ onceListeners = pre.onceListeners
  /\ last.op # "setMaxListeners" => getMaxListeners(Reg) = getMaxListeners(pre)
  /\ last.op = "getMaxListeners" => last.count = maxListeners /\ Reg = pre
  /\ last.op \in AddOps
       => (last.ret = "throw"
             <=> Len(IF last.op \in {"on", "prependListener"}
                       THEN OnList(Reg, last.event)
                       ELSE OnceList(Reg, last.event)) > getMaxListeners(pre))

\* setMaxListeners(1) has just run on a registry holding a list of two
\* listeners, which it left alone.
C18_Witness ==
  /\ last.op = "setMaxListeners"
  /\ last.n = 1
  /\ pre.maxListeners = 10
  /\ \E e \in Events : Len(OnList(Reg, e)) = 2
  /\ getMaxListeners(Reg) = 1

\* Everything the registry holds about event e is the same in r1 and r2.
SameEntry(r1, r2, e) ==
  /\ SameLists(r1, r2, e)
  /\ e \in Range(r1.onListeners.keys) <=> e \in Range(r2.onListeners.keys)
  /\ e \in Range(r1.onceListeners.keys) <=> e \in Range(r2.onceListeners.keys)

\* C20: on, once, prependListener, prependOnceListener, off and emit applied
\* to event e, and removeAllListeners applied to named events, leave the
\* persistent and one-shot entries of every other event and the
\* max-listeners threshold unchanged.
C20_OtherEventsUntouched ==
  /\ last.op \in AddOps \cup {"off", "emit"}
       => /\ \A other \in Events \ {last.event} : SameEntry(Reg, pre, other)
          /\ maxListeners = pre.maxListeners
  /\ (last.op = "removeAllListeners" /\ last.events # <<>>)
       => /\ \A other \in Events \ Range(last.events) : SameEntry(Reg, pre, other)
          /\ maxListeners = pre.maxListeners

\* off("a", f) has just removed a listener of "a" while "b" holds the same
\* listener f.
C20_Witness ==
  /\ last.op = "off"
  /\ last.event = "a"
  /\ listenerCount(Reg, "a") < listenerCount(pre, "a")
  /\ last.listener \in Range(listeners(Reg, "b"))

\* C19: over any run of calls with listeners that neither throw nor call
\* back, a listener f never placed in the persistent list of e is invoked by
\* emit(e) at most as often as once and prependOnceListener registered it on
\* e; more exactly, its invocations and its entries still in the one-shot
\* list together never exceed its registrations.
C19_OneShotFiresAtMostOncePerRegistration ==
  (tally.tracking /\ ~tally.persistent)
  => /\ tally.invoked <= tally.registered
     /\ tally.invoked + Occurrences(OnceList(Reg, TallyEvent), TallyListener)
          <= tally.registered

\* The counted listener was registered twice as one-shot, never as
\* persistent, and has been invoked twice.
C19_Witness ==
  /\ tally.tracking
  /\ ~tally.persistent
  /\ tally.registered = 2
  /\ tally.invoked = 2
  /\ last.op = "emit"

====
